---- MODULE Spec2Model ----
(***************************************************************************)
(* The completion bridge of ucp/send_recv.py: four entry points            *)
(* (tag_send, tag_recv, stream_send, stream_recv) that create an asyncio   *)
(* future, issue a native UCX operation with a completion callback, write  *)
(* the optional pending_msg dictionary and return the future; and the      *)
(* four callbacks that resolve the future when the native layer delivers   *)
(* the completion.                                                         *)
(*                                                                         *)
(* The state is what the program holds: the event loops, the frame of the  *)
(* entry point being executed (the caller is one cooperative task, so      *)
(* there is at most one), the futures, the callbacks registered with the   *)
(* native layer (released once the completion is delivered), and the       *)
(* caller's pending_msg dictionary.                                        *)
(***************************************************************************)
EXTENDS Naturals, Sequences, FiniteSets, TLC

\* Number of entry-point calls made in one behaviour.
MaxReq == 2
\* Byte lengths and received byte counts range over 1..MaxLen.
MaxLen == 2

Req == 1..MaxReq
Lens == 1..MaxLen
Loops == {"A", "B"}
Ops == {"tag_send", "tag_recv", "stream_send", "stream_recv"}
SendOps == {"tag_send", "stream_send"}
RecvOps == {"tag_recv", "stream_recv"}

\* Python's None, as an exception value and as a dictionary entry.
None == <<>>
\* Errors the native layer reports through the callback's first argument.
NativeErrors == {<<"TransferFault">>}
\* The first argument of a callback.
Exceptions == {None} \cup NativeErrors

VARIABLES
    loop_closed,   \* loop_closed[l]: asyncio loop l has been closed
    current,       \* the loop asyncio.get_event_loop() returns
    nreq,          \* number of entry-point calls started
    frame,         \* the entry-point call being executed: its arguments, locals, position
    fut,           \* fut[r]: the future created by call r
    callback,      \* callback[r]: the callback and arguments call r registered
    pending_msg,   \* the caller's pending_msg dictionary
    cb_raised      \* what the latest callback invocation raised ("None": it returned)

vars == <<loop_closed, current, nreq, frame, fut, callback, pending_msg, cb_raised>>

\* asyncio.get_event_loop()
get_event_loop == current

\* loop.is_closed()
is_closed(l) == loop_closed[l]

\* A future that does not exist (not created yet, or dropped unreturned).
NoFuture == [state |-> "NONE", exception |-> None, loop |-> ""]

\* loop.create_future()
create_future(l) == [state |-> "PENDING", exception |-> None, loop |-> l]

\* No entry point is being executed.
NoFrame == [r |-> 0, op |-> "", nbytes |-> 0, has_pm |-> FALSE, pc |-> "", req |-> None]

\* Nothing registered with the native layer.
NoCallback == [cb |-> "", arg |-> <<>>, times |-> 0]

Init ==
    /\ loop_closed = [l \in Loops |-> FALSE]
    /\ current = "A"
    /\ nreq = 0
    /\ frame = NoFrame
    /\ fut = [r \in Req |-> NoFuture]
    /\ callback = [r \in Req |-> NoCallback]
    /\ pending_msg = [future |-> None, ucp_request |-> None]
    /\ cb_raised = "None"

\* The caller is one cooperative task and the entry points never suspend: no entry
\* point is between its first and its last line.
NoCallInProgress == frame = NoFrame

\* An entry point that stores its future in pending_msg before the native issue.
Call_publishing_first(r, o, n, pm) ==
    /\ NoCallInProgress
    /\ r = nreq + 1
    /\ nreq' = r
    /\ frame' = [r |-> r, op |-> o, nbytes |-> n, has_pm |-> pm, pc |-> "issue",
                 req |-> None]
    /\ fut' = [fut EXCEPT ![r] = create_future(get_event_loop)]
    /\ pending_msg' = IF pm THEN [pending_msg EXCEPT !.future = <<"Future", r>>]
                      ELSE pending_msg
    /\ UNCHANGED <<loop_closed, current, callback, cb_raised>>

\* Lines 21, 48, 66, 93: entry point o is called with nbytes n, with or without the
\* pending_msg dictionary, and creates its future.
Call(r, o, n, pm) ==
    /\ NoCallInProgress
    /\ r = nreq + 1
    /\ nreq' = r
    /\ frame' = [r |-> r, op |-> o, nbytes |-> n, has_pm |-> pm, pc |-> "issue",
                 req |-> None]
    /\ fut' = [fut EXCEPT ![r] = create_future(get_event_loop)]
    /\ UNCHANGED <<loop_closed, current, callback, pending_msg, cb_raised>>

\* A reference to one future that all calls share.
FutureRef_shared(r) == <<"Future", 1>>

\* A reference to the future created by call r, as held by `ret`.
FutureRef(r) == <<"Future", r>>

\* The in-flight handle the native layer returns for the operation of call r.
UCXRequest(r) == <<"UCXRequest", r>>

\* Lines 23 and 68: the callback arguments of a send, (ret,).
send_cb_args == <<FutureRef(frame.r)>>

\* Callback arguments of a receive whose expected length is one value for all calls.
recv_cb_args_fixed == <<FutureRef(frame.r), 1>>

\* Lines 49 and 95: the callback arguments of a receive, (ret, nbytes).
recv_cb_args == <<FutureRef(frame.r), frame.nbytes>>

\* The callback arguments the executing entry point hands to the native issue.
callback_arg == IF frame.op \in SendOps THEN send_cb_args ELSE recv_cb_args

\* Lines 22, 49, 67, 94: the native issue registers the callback of the entry point
\* with its arguments and returns a handle.
Issue(r) ==
    /\ frame.r = r /\ frame.pc = "issue"
    /\ callback' = [callback EXCEPT ![r] = [cb |-> frame.op, arg |-> callback_arg,
                                            times |-> 0]]
    /\ frame' = [frame EXCEPT !.req = UCXRequest(r), !.pc = "publish"]
    /\ UNCHANGED <<loop_closed, current, nreq, fut, pending_msg, cb_raised>>

\* Lines 22, 49, 67, 94: the native issue raises; the exception leaves the entry
\* point and the future, never returned, is dropped.
IssueRaise(r) ==
    /\ frame.r = r /\ frame.pc = "issue"
    /\ frame' = NoFrame
    /\ fut' = [fut EXCEPT ![r] = NoFuture]
    /\ UNCHANGED <<loop_closed, current, nreq, callback, pending_msg, cb_raised>>

\* An entry point that stores its future only in a dictionary that holds none yet.
WriteFuture_first_only(r) ==
    /\ frame.r = r /\ frame.pc = "publish"
    /\ frame.has_pm
    /\ pending_msg' = IF pending_msg.future = None
                      THEN [pending_msg EXCEPT !.future = <<"Future", r>>]
                      ELSE pending_msg
    /\ frame' = [frame EXCEPT !.pc = "write_req"]
    /\ UNCHANGED <<loop_closed, current, nreq, fut, callback, cb_raised>>

\* An entry point that skips the assignment of line 26.
WriteFuture_skipped(r) ==
    /\ frame.r = r /\ frame.pc = "publish"
    /\ frame.has_pm
    /\ frame' = [frame EXCEPT !.pc = "write_req"]
    /\ UNCHANGED <<loop_closed, current, nreq, fut, callback, pending_msg, cb_raised>>

\* Lines 25-26: pending_msg['future'] = ret
WriteFuture(r) ==
    /\ frame.r = r /\ frame.pc = "publish"
    /\ frame.has_pm
    /\ pending_msg' = [pending_msg EXCEPT !.future = FutureRef(r)]
    /\ frame' = [frame EXCEPT !.pc = "write_req"]
    /\ UNCHANGED <<loop_closed, current, nreq, fut, callback, cb_raised>>

\* An entry point that returns without the assignment of line 27.
WriteRequest_skipped(r) ==
    /\ frame.r = r /\ frame.pc = "write_req"
    /\ frame' = NoFrame
    /\ UNCHANGED <<loop_closed, current, nreq, fut, callback, pending_msg, cb_raised>>

\* Lines 27-28: pending_msg['ucp_request'] = req; return ret
WriteRequest(r) ==
    /\ frame.r = r /\ frame.pc = "write_req"
    /\ pending_msg' = [pending_msg EXCEPT !.ucp_request = frame.req]
    /\ frame' = NoFrame
    /\ UNCHANGED <<loop_closed, current, nreq, fut, callback, cb_raised>>

\* Lines 25 and 28 with pending_msg None: return ret
ReturnNoRecord(r) ==
    /\ frame.r = r /\ frame.pc = "publish"
    /\ ~frame.has_pm
    /\ frame' = NoFrame
    /\ UNCHANGED <<loop_closed, current, nreq, fut, callback, pending_msg, cb_raised>>

\* What a callback leaves behind: the future and the exception it raised.
Returns(f) == [future |-> f, raised |-> "None"]
Raises(f, x) == [future |-> f, raised |-> x]

\* future.set_result(True): only a pending future takes a result.
set_result(f) ==
    IF f.state # "PENDING" THEN Raises(f, "InvalidStateError")
    ELSE Returns([f EXCEPT !.state = "FINISHED"])

\* A set_exception that overwrites whatever the future holds.
set_exception_overwriting(f, exception) ==
    Returns([f EXCEPT !.state = "FINISHED", !.exception = exception])

\* future.set_exception(exception): only a pending future takes an exception.
set_exception(f, exception) ==
    IF f.state # "PENDING" THEN Raises(f, "InvalidStateError")
    ELSE Returns([f EXCEPT !.state = "FINISHED", !.exception = exception])

\* Lines 39-44: exceptions.UCXError(msg), msg being the formatted text.
UCXError(received, expected_receive) ==
    <<"UCXError", "Comm Error: ", "length mismatch: ", received, " (got) != ",
      expected_receive, " (expected)">>

\* tag_send.send_cb that resolves nothing when the transfer succeeded.
tag_send_cb_silent_on_success(exception, future) ==
    IF is_closed(get_event_loop) THEN Returns(future)
    ELSE IF exception # None THEN set_exception(future, exception)
    ELSE Returns(future)

\* tag_send.send_cb without the is_closed() test of lines 14-15.
tag_send_cb_no_closed_test(exception, future) ==
    IF exception # None THEN set_exception(future, exception)
    ELSE set_result(future)

\* Lines 13-19: tag_send.send_cb
tag_send_cb(exception, future) ==
    IF is_closed(get_event_loop) THEN Returns(future)
    ELSE IF exception # None THEN set_exception(future, exception)
    ELSE set_result(future)

\* tag_recv.recv_cb that compares the byte counts before it looks at the exception.
tag_recv_cb_count_first(exception, received, future, expected_receive) ==
    IF is_closed(get_event_loop) THEN Returns(future)
    ELSE IF received # expected_receive
         THEN set_exception(future, UCXError(received, expected_receive))
    ELSE IF exception # None THEN set_exception(future, exception)
    ELSE set_result(future)

\* tag_recv.recv_cb without the comparison of line 38.
tag_recv_cb_unchecked(exception, received, future, expected_receive) ==
    IF is_closed(get_event_loop) THEN Returns(future)
    ELSE IF exception # None THEN set_exception(future, exception)
    ELSE set_result(future)

\* Lines 33-46: tag_recv.recv_cb
tag_recv_cb(exception, received, future, expected_receive) ==
    IF is_closed(get_event_loop) THEN Returns(future)
    ELSE IF exception # None THEN set_exception(future, exception)
    ELSE IF received # expected_receive
         THEN set_exception(future, UCXError(received, expected_receive))
    ELSE set_result(future)

\* stream_send.send_cb that originates an error of its own for a successful transfer.
stream_send_cb_originating(exception, future) ==
    IF is_closed(get_event_loop) THEN Returns(future)
    ELSE IF exception # None THEN set_exception(future, exception)
    ELSE set_exception(future, UCXError(0, 1))

\* stream_send.send_cb that reports success whatever the exception argument.
stream_send_cb_swallowing(exception, future) ==
    IF is_closed(get_event_loop) THEN Returns(future)
    ELSE set_result(future)

\* Lines 58-64: stream_send.send_cb
stream_send_cb(exception, future) ==
    IF is_closed(get_event_loop) THEN Returns(future)
    ELSE IF exception # None THEN set_exception(future, exception)
    ELSE set_result(future)

\* stream_recv.recv_cb that accepts more bytes than expected.
stream_recv_cb_lenient(exception, received, future, expected_receive) ==
    IF is_closed(get_event_loop) THEN Returns(future)
    ELSE IF exception # None THEN set_exception(future, exception)
    ELSE IF received < expected_receive
         THEN set_exception(future, UCXError(received, expected_receive))
    ELSE set_result(future)

\* stream_recv.recv_cb without the is_closed() test of lines 79-80.
stream_recv_cb_no_closed_test(exception, received, future, expected_receive) ==
    IF exception # None THEN set_exception(future, exception)
    ELSE IF received # expected_receive
         THEN set_exception(future, UCXError(received, expected_receive))
    ELSE set_result(future)

\* Lines 78-91: stream_recv.recv_cb
stream_recv_cb(exception, received, future, expected_receive) ==
    IF is_closed(get_event_loop) THEN Returns(future)
    ELSE IF exception # None THEN set_exception(future, exception)
    ELSE IF received # expected_receive
         THEN set_exception(future, UCXError(received, expected_receive))
    ELSE set_result(future)

\* The callback of call r is registered with the native layer.
Registered(r) == callback[r] # NoCallback

\* The registration of call r after one more invocation: the native layer releases
\* the callback and its arguments; a test double keeps them for a second round.
Released == NoCallback
Kept(r) == [callback[r] EXCEPT !.times = 1]

\* A send_cb that resets the caller's dictionary when it runs.
InvokeSend_clearing_record(r, exception, after) ==
    LET id == callback[r].arg[1][2]
        res == IF callback[r].cb = "tag_send" THEN tag_send_cb(exception, fut[id])
               ELSE stream_send_cb(exception, fut[id])
    IN /\ fut' = [fut EXCEPT ![id] = res.future]
       /\ cb_raised' = res.raised
       /\ callback' = [callback EXCEPT ![r] = after]
       /\ pending_msg' = [future |-> None, ucp_request |-> None]
       /\ UNCHANGED <<loop_closed, current, nreq, frame>>

\* send_cb(exception, *arg) of call r runs.
InvokeSend(r, exception, after) ==
    LET id == callback[r].arg[1][2]
        res == IF callback[r].cb = "tag_send" THEN tag_send_cb(exception, fut[id])
               ELSE stream_send_cb(exception, fut[id])
    IN /\ fut' = [fut EXCEPT ![id] = res.future]
       /\ cb_raised' = res.raised
       /\ callback' = [callback EXCEPT ![r] = after]
       /\ UNCHANGED <<loop_closed, current, nreq, frame, pending_msg>>

\* recv_cb(exception, received, *arg) of call r runs.
InvokeRecv(r, exception, received, after) ==
    LET id == callback[r].arg[1][2]
        res == IF callback[r].cb = "tag_recv"
               THEN tag_recv_cb(exception, received, fut[id], callback[r].arg[2])
               ELSE stream_recv_cb(exception, received, fut[id], callback[r].arg[2])
    IN /\ fut' = [fut EXCEPT ![id] = res.future]
       /\ cb_raised' = res.raised
       /\ callback' = [callback EXCEPT ![r] = after]
       /\ UNCHANGED <<loop_closed, current, nreq, frame, pending_msg>>

\* The native layer delivers the completion of the send of call r with this outcome.
DeliverSendWith(r, exception) ==
    /\ callback[r].cb \in SendOps /\ callback[r].times = 0
    /\ InvokeSend(r, exception, Released)

\* The native layer delivers the completion of the receive of call r with this outcome.
DeliverRecvWith(r, exception, received) ==
    /\ callback[r].cb \in RecvOps /\ callback[r].times = 0
    /\ InvokeRecv(r, exception, received, Released)

\* The native layer delivers the completion of a send: once per issued request, at
\* any point after the issue, from any execution context.
DeliverSend(r) == \E exception \in Exceptions : DeliverSendWith(r, exception)

\* The native layer delivers the completion of a receive.
DeliverRecv(r) ==
    \E exception \in Exceptions, received \in Lens :
        DeliverRecvWith(r, exception, received)

\* A test double delivers a completion and keeps the callback; it holds one
\* callback at a time.
DeliverFirstOfTwo(r) ==
    /\ Registered(r) /\ callback[r].times = 0
    /\ \A q \in Req : callback[q].times = 0
    /\ IF callback[r].cb \in SendOps
       THEN \E exception \in Exceptions : InvokeSend(r, exception, Kept(r))
       ELSE \E exception \in Exceptions, received \in Lens :
                InvokeRecv(r, exception, received, Kept(r))

\* The test double invokes the callback it kept a second time.
Redeliver(r) ==
    /\ Registered(r) /\ callback[r].times = 1
    /\ IF callback[r].cb \in SendOps
       THEN \E exception \in Exceptions : InvokeSend(r, exception, Released)
       ELSE \E exception \in Exceptions, received \in Lens :
                InvokeRecv(r, exception, received, Released)

\* loop.close(): the caller tears the runtime down.
CloseLoop(l) ==
    /\ NoCallInProgress
    /\ ~loop_closed[l]
    /\ loop_closed' = [loop_closed EXCEPT ![l] = TRUE]
    /\ UNCHANGED <<current, nreq, frame, fut, callback, pending_msg, cb_raised>>

\* asyncio.set_event_loop(l): another loop becomes the current one.
SetEventLoop(l) ==
    /\ NoCallInProgress
    /\ current # l
    /\ current' = l
    /\ UNCHANGED <<loop_closed, nreq, frame, fut, callback, pending_msg, cb_raised>>

\* An external canceller reads the future out of pending_msg and cancels it.
Cancel ==
    /\ NoCallInProgress
    /\ pending_msg.future # None
    /\ LET id == pending_msg.future[2]
       IN /\ fut[id].state = "PENDING"
          /\ fut' = [fut EXCEPT ![id].state = "CANCELLED"]
    /\ UNCHANGED <<loop_closed, current, nreq, frame, callback, pending_msg, cb_raised>>

\* The entry points, line by line.
EntryPoint ==
    \/ \E r \in Req, o \in Ops, n \in Lens, pm \in BOOLEAN : Call(r, o, n, pm)
    \/ \E r \in Req : Issue(r)
    \/ \E r \in Req : IssueRaise(r)
    \/ \E r \in Req : WriteFuture(r)
    \/ \E r \in Req : WriteRequest(r)
    \/ \E r \in Req : ReturnNoRecord(r)

\* The caller tears down its runtime, the one event loop of the program.
Teardown == CloseLoop(get_event_loop)

\* A caller that works with several event loops: any of them may be closed and any
\* may become the current one.
Runtimes ==
    \/ \E l \in Loops : CloseLoop(l)
    \/ \E l \in Loops : SetEventLoop(l)

\* The native layer keeping its contract: one callback per issued request.
Native ==
    \/ \E r \in Req : DeliverSend(r)
    \/ \E r \in Req : DeliverRecv(r)

\* The bridge with a native layer and a caller that keep to their contracts.
Next ==
    \/ EntryPoint
    \/ Teardown
    \/ Native

Spec == Init /\ [][Next]_vars

\* The bridge under a test double that may deliver a completion twice.
NextDouble ==
    \/ Next
    \/ \E r \in Req : DeliverFirstOfTwo(r)
    \/ \E r \in Req : Redeliver(r)

SpecDouble == Init /\ [][NextDouble]_vars

\* The bridge with an external canceller at work.
NextCancel ==
    \/ Next
    \/ Cancel

SpecCancel == Init /\ [][NextCancel]_vars

\* The bridge in a program with several event loops.
NextLoops ==
    \/ Next
    \/ Runtimes

SpecLoops == Init /\ [][NextLoops]_vars

\* The native layer eventually delivers the completion of every issued request.
LiveSpec ==
    /\ Init /\ [][Next]_vars
    /\ \A r \in Req : WF_vars(DeliverSend(r)) /\ WF_vars(DeliverRecv(r))

----
\* Vocabulary of the properties.

\* The Awaitable states of the specification.
Pending(f) == f.state = "PENDING"
FulfilledOk(f) == f.state = "FINISHED" /\ f.exception = None
FulfilledError(f) == f.state = "FINISHED" /\ f.exception # None
Fulfilled(f) == f.state = "FINISHED"
Cancelled(f) == f.state = "CANCELLED"

\* The native operation of call r has been issued.
Issued(r) == fut[r] # NoFuture /\ ~(frame.r = r /\ frame.pc = "issue")

\* The completion of call r has been delivered and its callback released.
Delivered(r) == Issued(r) /\ ~Registered(r)

\* The entry point of call r has returned its future.
Returned(r) == fut[r] # NoFuture /\ frame.r # r

\* The runtime the callbacks consult is open.
RuntimeOpen == ~is_closed(get_event_loop)

\* The step is the native issue of call r.
IssueStep(r) == frame.r = r /\ frame.pc = "issue" /\ frame'.pc = "publish"

\* The step is the return of call r.
ReturnStep(r) == frame.r = r /\ frame.pc # "issue" /\ frame' = NoFrame

\* The step is the first delivery of the completion of call r, whatever the outcome.
DeliveryStep(r) ==
    Registered(r) /\ callback[r].times = 0 /\ callback'[r] # callback[r]

\* The step is a second invocation of the callback of call r.
SecondDeliveryStep(r) ==
    Registered(r) /\ callback[r].times = 1 /\ callback'[r] = NoCallback

\* The step is the external canceller cancelling the future of call r.
CancelStep(r) == Pending(fut[r]) /\ Cancelled(fut'[r])

\* The byte length the registered receive callback of call r compares with.
Expected(r) == callback[r].arg[2]

\* e is a length-mismatch error carrying the expected length and the received count.
IsLengthMismatch(e, expected, received) ==
    /\ Len(e) = 7
    /\ e[1] = "UCXError"
    /\ e[4] = received
    /\ e[6] = expected

----
\* C1: when the completion of a receive (tag_recv or stream_recv) is delivered without
\* an error while the runtime is open, the future resolves to success if the delivered
\* byte count equals the byte length given at issue time (the nbytes of the call, which
\* the issue hands to the native layer), and otherwise to a length-mismatch error that
\* carries the expected length and the received count.
C1_RecvLengthCheck ==
    [][\A r \in Req :
         /\ (IssueStep(r) /\ frame.op \in RecvOps)
            => callback'[r].arg[2] = frame.nbytes
         /\ \A received \in Lens :
              (DeliverRecvWith(r, None, received) /\ RuntimeOpen)
              => IF received = Expected(r)
                 THEN FulfilledOk(fut'[r])
                 ELSE /\ FulfilledError(fut'[r])
                      /\ IsLengthMismatch(fut'[r].exception, Expected(r), received)]_vars

\* A receive whose completion arrived before its return is resolved to success and
\* another future holds a length mismatch.
C1_Witness ==
    \E r, q \in Req :
        /\ frame.r = r /\ frame.op \in RecvOps /\ FulfilledOk(fut[r])
        /\ FulfilledError(fut[q]) /\ fut[q].exception[1] = "UCXError"
        /\ fut[q].exception[4] # fut[q].exception[6]

\* C2: when the runtime is torn down before the completion is delivered, the callback
\* of any of the four operations leaves the future pending and raises nothing, whatever
\* the outcome (success, native error, matching or mismatching count), and the future
\* stays pending from then on.
C2_DiscardOnTeardown ==
    [][\A r \in Req :
         /\ (DeliveryStep(r) /\ ~RuntimeOpen)
            => (fut'[r] = fut[r] /\ Pending(fut'[r]) /\ cb_raised' = "None")
         /\ (Delivered(r) /\ Pending(fut[r])) => Pending(fut'[r])]_vars

\* A completion was delivered to the closed runtime and the future is still pending.
C2_Witness ==
    \E r \in Req : Delivered(r) /\ Pending(fut[r]) /\ ~RuntimeOpen /\ cb_raised = "None"

\* C3: a future that is fulfilled (ok or error) keeps its outcome through every later
\* step: further callback invocations, entry-point calls, teardown.
C3_ResolvedAtMostOnce ==
    [][\A r \in Req : Fulfilled(fut[r]) => fut'[r] = fut[r]]_vars

\* A second invocation has hit a future that is not pending, and a future is fulfilled.
C3_Witness ==
    \E r \in Req : Delivered(r) /\ Fulfilled(fut[r]) /\ cb_raised = "InvalidStateError"

\* C4: a second delivery to the callback of a request whose future is already fulfilled,
\* the runtime being open, returns normally and leaves the future with its first outcome.
C4_SecondDeliveryReturns ==
    [][\A r \in Req :
         (SecondDeliveryStep(r) /\ Fulfilled(fut[r]) /\ RuntimeOpen)
         => (cb_raised' = "None" /\ fut'[r] = fut[r])]_vars

\* C5: when an entry point that was given pending_msg returns, pending_msg['ucp_request']
\* is the non-null handle the native issue returned to this call and pending_msg['future']
\* is the future the call returns, also when the completion was delivered beforehand.
C5_RecordAtReturn ==
    [][\A r \in Req :
         (ReturnStep(r) /\ frame.has_pm)
         => /\ frame.req # None
            /\ pending_msg'.ucp_request = frame.req
            /\ pending_msg'.future = FutureRef(r)]_vars

\* The second call has returned with the dictionary holding its future and handle, and
\* its completion is delivered.
C5_Witness ==
    /\ NoCallInProgress /\ Delivered(2)
    /\ pending_msg = [future |-> FutureRef(2), ucp_request |-> UCXRequest(2)]

\* C6: when the outcome of any of the four operations carries an error and the runtime
\* is open, the future resolves to exactly that error, unaltered.
C6_NativeErrorPassedThrough ==
    [][\A r \in Req, e \in NativeErrors :
         /\ (DeliverSendWith(r, e) /\ RuntimeOpen)
            => (FulfilledError(fut'[r]) /\ fut'[r].exception = e)
         /\ \A received \in Lens :
              (DeliverRecvWith(r, e, received) /\ RuntimeOpen)
              => (FulfilledError(fut'[r]) /\ fut'[r].exception = e)]_vars

\* A stream_send whose completion carried TransferFault, delivered before the return,
\* holds TransferFault.
C6_Witness ==
    \E r \in Req :
        /\ frame.r = r /\ frame.op = "stream_send" /\ Delivered(r)
        /\ FulfilledError(fut[r]) /\ fut[r].exception = <<"TransferFault">>

\* Future f holds the resolution that matches a send outcome.
MatchesSendOutcome(f, exception) ==
    IF exception # None THEN FulfilledError(f) /\ f.exception = exception
    ELSE FulfilledOk(f)

\* Future f holds the resolution that matches a receive outcome.
MatchesRecvOutcome(f, exception, received, expected) ==
    IF exception # None THEN FulfilledError(f) /\ f.exception = exception
    ELSE IF received # expected
         THEN FulfilledError(f) /\ IsLengthMismatch(f.exception, expected, received)
    ELSE FulfilledOk(f)

\* C7 as stated: the delivery of the completion resolves the future with the matching
\* outcome, also when the runtime has shut down since the issue.
C7_ResolvedEvenAfterShutdown ==
    [][\A r \in Req, e \in Exceptions :
         /\ DeliverSendWith(r, e) => MatchesSendOutcome(fut'[r], e)
         /\ \A received \in Lens :
              DeliverRecvWith(r, e, received)
              => MatchesRecvOutcome(fut'[r], e, received, Expected(r))]_vars

\* C7 as amended: the delivered completion resolves the pending future, once and with
\* the matching outcome, exactly when the runtime is open at delivery; with the runtime
\* shut down the completion is dropped and the future is left pending.
C7_ResolvedIffRuntimeOpen ==
    [][\A r \in Req :
         /\ DeliveryStep(r) => Pending(fut[r])
         /\ \A e \in Exceptions :
              /\ DeliverSendWith(r, e)
                 => IF RuntimeOpen THEN MatchesSendOutcome(fut'[r], e)
                    ELSE Pending(fut'[r])
              /\ \A received \in Lens :
                   DeliverRecvWith(r, e, received)
                   => IF RuntimeOpen
                      THEN MatchesRecvOutcome(fut'[r], e, received, Expected(r))
                      ELSE Pending(fut'[r])
         /\ (Delivered(r) /\ fut'[r] # NoFuture) => fut'[r] = fut[r]]_vars

\* One completion was delivered to the open runtime and resolved its future, another
\* was delivered after the shutdown and left its future pending.
C7_Witness ==
    \E r, q \in Req :
        /\ Delivered(r) /\ Fulfilled(fut[r])
        /\ Delivered(q) /\ Pending(fut[q])

\* C8 as stated: no observer of a request, its completion callback included, runs
\* while the native operation is issued and pending_msg is not yet written: in the
\* window between the issue and the last write the callback has not run.
C8_NoObserverBeforeRecordWrite ==
    \A r \in Req :
        (frame.r = r /\ frame.has_pm /\ frame.pc \in {"publish", "write_req"})
        => Registered(r)

\* C8 as amended: cancellation logic, which runs between entry-point calls, finds in
\* pending_msg the future and the handle of one and the same returned call; only the
\* completion callback can run before the dictionary is written.
C8_CancellerSeesWrittenRecord ==
    [][\A r \in Req :
         CancelStep(r)
         => /\ Returned(r)
            /\ pending_msg.future = FutureRef(r)
            /\ pending_msg.ucp_request = UCXRequest(r)]_vars

\* A future was cancelled through the dictionary, which holds its handle.
C8_Witness ==
    \E r \in Req :
        /\ Cancelled(fut[r]) /\ Returned(r)
        /\ pending_msg = [future |-> FutureRef(r), ucp_request |-> UCXRequest(r)]

\* C9: no invocation of a callback raises into the delivering context; in particular a
\* completion delivered, the runtime being open, for a future that an external
\* canceller has cancelled returns without raising and leaves the future cancelled.
C9_NoRaiseOutOfCallback ==
    [][\A r \in Req :
         DeliveryStep(r)
         => /\ cb_raised' = "None"
            /\ Cancelled(fut[r]) => Cancelled(fut'[r])]_vars

\* No loop is ever closed.
NeverTornDown == \A l \in Loops : ~loop_closed[l]

\* C10: if the native layer delivers the completion of every issued request and the
\* runtime is never torn down (nobody cancels), every future an entry point has
\* returned is eventually fulfilled, ok or error.
C10_EventuallyFulfilled ==
    ([]NeverTornDown) => \A r \in Req : Returned(r) ~> Fulfilled(fut[r])

\* A returned future is fulfilled while every loop is open.
C10_Witness ==
    \E r \in Req : Returned(r) /\ Fulfilled(fut[r]) /\ NeverTornDown

----
\* C11: on a receive completion the error indicator wins over the byte-count check:
\* when the outcome carries an error and the runtime is open, the future holds that
\* error for an equal and for a different received count alike, and never a
\* length-mismatch error.
C11_ErrorBeforeCount ==
    [][\A r \in Req, e \in NativeErrors, received \in Lens :
         (DeliverRecvWith(r, e, received) /\ RuntimeOpen)
         => /\ fut'[r].exception = e
            /\ ~IsLengthMismatch(fut'[r].exception, Expected(r), received)
            /\ \A other \in Lens :
                 DeliverRecvWith(r, e, other) /\ cb_raised' = "None"]_vars

\* A tag_recv whose completion carried TransferFault, delivered before the return,
\* holds TransferFault.
C11_Witness ==
    \E r \in Req :
        /\ frame.r = r /\ frame.op = "tag_recv" /\ Delivered(r)
        /\ FulfilledError(fut[r]) /\ fut[r].exception \in NativeErrors

----
\* C12: the length mismatch is the only error the bridge originates, and only for
\* receives: whenever a future becomes fulfilled with an error, the step is the
\* delivery for that same request of either that native error, or (receives only) of
\* a count that differs from the request's expected length, the error then being the
\* length mismatch of the two; the error stays; and a send completion without error
\* never yields an error and, the runtime being open, yields success.
C12_OnlyLengthMismatchOriginated ==
    [][\A r \in Req :
         /\ (fut'[r] # fut[r] /\ FulfilledError(fut'[r]))
            => \/ \E e \in NativeErrors :
                    /\ fut'[r].exception = e
                    /\ \/ DeliverSendWith(r, e)
                       \/ \E received \in Lens : DeliverRecvWith(r, e, received)
               \/ \E received \in Lens :
                    /\ DeliverRecvWith(r, None, received)
                    /\ received # Expected(r)
                    /\ IsLengthMismatch(fut'[r].exception, Expected(r), received)
         /\ FulfilledError(fut[r]) => fut'[r] = fut[r]
         /\ DeliverSendWith(r, None)
            => /\ ~FulfilledError(fut'[r])
               /\ RuntimeOpen => FulfilledOk(fut'[r])]_vars

\* A send delivered before its return is resolved to success while another future
\* holds a length mismatch.
C12_Witness ==
    \E r, q \in Req :
        /\ frame.r = r /\ frame.op \in SendOps /\ Delivered(r) /\ FulfilledOk(fut[r])
        /\ FulfilledError(fut[q]) /\ fut[q].exception \notin NativeErrors

----
\* The runtime that created the future of call r at issue time.
Owner(r) == fut[r].loop

\* C13: the discard decision is made on the runtime that owns the future: the
\* completion delivered for a pending future is discarded (the future left pending)
\* if and only if the owning runtime is closed, whichever runtime is current in the
\* delivering context.
C13_DiscardDecidedOnOwner ==
    [][\A r \in Req :
         (DeliveryStep(r) /\ Pending(fut[r]))
         => (Pending(fut'[r]) <=> is_closed(Owner(r)))]_vars

----
\* C14: the expected byte count of a receive is fixed at issue time: the issue hands
\* the nbytes of the call to the native layer, nothing changes it while the request is
\* in flight (other calls, other completions, teardown), and the delivered count is
\* compared with exactly that value.
C14_ExpectedFixedAtIssue ==
    [][\A r \in Req :
         /\ (frame.r = r /\ frame'.r = r) => frame'.nbytes = frame.nbytes
         /\ (IssueStep(r) /\ frame.op \in RecvOps) => callback'[r].arg[2] = frame.nbytes
         /\ (Registered(r) /\ callback'[r] # NoCallback)
            => callback'[r].arg = callback[r].arg
         /\ \A received \in Lens :
              (DeliverRecvWith(r, None, received) /\ RuntimeOpen)
              => (FulfilledOk(fut'[r]) <=> received = Expected(r))]_vars

\* Two receives with different expected lengths are in flight, the first one already
\* returned.
C14_Witness ==
    \E r, q \in Req :
        /\ r < q /\ Returned(r)
        /\ callback[r].cb \in RecvOps /\ callback[q].cb \in RecvOps
        /\ Expected(r) # Expected(q)

----
\* What the registered callback of call r returns and leaves in its future when it is
\* invoked with this outcome in the current state.
CallbackResult(r, exception, received) ==
    LET id == callback[r].arg[1][2]
    IN CASE callback[r].cb = "tag_send" -> tag_send_cb(exception, fut[id])
         [] callback[r].cb = "stream_send" -> stream_send_cb(exception, fut[id])
         [] callback[r].cb = "tag_recv" ->
              tag_recv_cb(exception, received, fut[id], callback[r].arg[2])
         [] callback[r].cb = "stream_recv" ->
              stream_recv_cb(exception, received, fut[id], callback[r].arg[2])

\* C15: completions of different requests are independent: the delivery of the
\* completion of one request leaves the future and the registered callback of every
\* other request unchanged, and what the completion of an in-flight request resolves
\* its future to, for every outcome, is the same after that delivery as before it, so
\* both delivery orders end in the same outcomes.
C15_CompletionsIndependent ==
    [][\A r, q \in Req :
         (r # q /\ DeliveryStep(q))
         => /\ fut'[r] = fut[r]
            /\ callback'[r] = callback[r]
            /\ Registered(r)
               => \A e \in Exceptions, received \in Lens :
                    CallbackResult(r, e, received)' = CallbackResult(r, e, received)]_vars

\* The later of two returned requests is completed while the earlier one is still in
\* flight with its future pending.
C15_Witness ==
    \E r, q \in Req :
        /\ r < q /\ Returned(r) /\ Returned(q)
        /\ Registered(r) /\ Pending(fut[r])
        /\ Delivered(q) /\ Fulfilled(fut[q])

----
\* C16: no completion delivery changes pending_msg, whatever its outcome (success,
\* native error, length mismatch, discard on teardown): both fields stay as the entry
\* point wrote them; and the callbacks never read the dictionary: a step that leaves
\* the futures, the registrations and the loops alone (the writes of pending_msg among
\* them) leaves what every registered callback would do unchanged.
C16_RecordUntouchedByDelivery ==
    [][\A r \in Req :
         /\ DeliveryStep(r) => pending_msg' = pending_msg
         /\ (Registered(r) /\ UNCHANGED <<fut, callback, loop_closed, current>>)
            => \A e \in Exceptions, received \in Lens :
                 CallbackResult(r, e, received)' = CallbackResult(r, e, received)]_vars

\* The dictionary still holds the future and the handle of a returned request whose
\* completion was delivered with an error.
C16_Witness ==
    \E r \in Req :
        /\ NoCallInProgress /\ Returned(r) /\ Delivered(r) /\ FulfilledError(fut[r])
        /\ pending_msg = [future |-> FutureRef(r), ucp_request |-> UCXRequest(r)]

----
\* The step is the native issue of call r raising instead of returning a handle.
IssueRaiseStep(r) == frame.r = r /\ frame.pc = "issue" /\ frame' = NoFrame

\* The future pending_msg holds, if any, is one for which the native operation was
\* issued.
RecordHoldsIssued ==
    pending_msg.future # None => Issued(pending_msg.future[2])

\* C17: when the native issue raises, the entry point returns no future and registers
\* no callback, and pending_msg is as it was before the call: neither the start of the
\* call nor any step up to the issue, the raising issue included, writes it; so the
\* dictionary never holds a future for which no native operation was issued.
C17_IssueFailureLeavesRecord ==
    [][/\ (NoCallInProgress /\ frame'.pc = "issue") => pending_msg' = pending_msg
       /\ frame.pc = "issue" => pending_msg' = pending_msg
       /\ \A r \in Req :
            IssueRaiseStep(r) => (fut'[r] = NoFuture /\ callback'[r] = NoCallback)
       /\ RecordHoldsIssued']_vars

\* The issue of the second call has raised and the dictionary still holds the future
\* and the handle of the first call.
C17_Witness ==
    /\ NoCallInProgress /\ nreq = 2 /\ fut[2] = NoFuture
    /\ pending_msg = [future |-> FutureRef(1), ucp_request |-> UCXRequest(1)]

----
\* pending_msg is empty or holds the future and the handle of one returned call.
RecordPaired ==
    \/ pending_msg = [future |-> None, ucp_request |-> None]
    \/ \E r \in Req :
         /\ Returned(r)
         /\ pending_msg = [future |-> FutureRef(r), ucp_request |-> UCXRequest(r)]

\* C18: with one pending_msg passed to several calls, whenever no call is in progress
\* its two fields belong to one and the same returned request; that request is the
\* most recent call that returned with the dictionary: such a return leaves the pair
\* of its own call, and nothing else (a call without the dictionary, a raising issue,
\* deliveries, teardown) changes the dictionary between two such returns.
C18_RecordFieldsOfOneRequest ==
    [][/\ NoCallInProgress' => RecordPaired'
       /\ ~frame.has_pm => pending_msg' = pending_msg
       /\ \A r \in Req :
            /\ (ReturnStep(r) /\ frame.has_pm)
               => pending_msg' = [future |-> FutureRef(r), ucp_request |-> UCXRequest(r)]
            /\ IssueRaiseStep(r) => pending_msg' = pending_msg]_vars

\* Two calls have returned and are in flight, and the dictionary holds the future and
\* the handle of the second.
C18_Witness ==
    /\ NoCallInProgress /\ Registered(1) /\ Registered(2)
    /\ Pending(fut[1]) /\ Pending(fut[2])
    /\ pending_msg = [future |-> FutureRef(2), ucp_request |-> UCXRequest(2)]

----
\* The futures a callback can be handed: the futures of the calls, and a future in
\* each state (pending, fulfilled, cancelled) with and without an exception.
FutureStates ==
    {fut[r] : r \in Req}
    \cup {[state |-> s, exception |-> x, loop |-> l] :
            s \in {"PENDING", "FINISHED", "CANCELLED"}, x \in Exceptions, l \in Loops}

\* C19: the tag and the stream callbacks are equivalent: in every runtime state (open
\* or closed), for every future state, error indicator, received count and expected
\* length, recv_cb of tag_recv and recv_cb of stream_recv leave the same future and
\* raise the same, and so do send_cb of tag_send and send_cb of stream_send.
C19_TagStreamEquivalent ==
    \A f \in FutureStates, e \in Exceptions :
        /\ tag_send_cb(e, f) = stream_send_cb(e, f)
        /\ \A received \in Lens, expected \in Lens :
             tag_recv_cb(e, received, f, expected) = stream_recv_cb(e, received, f, expected)

\* A stream_recv delivered before its return holds a length mismatch and the other
\* request is completed too.
C19_Witness ==
    \E r, q \in Req :
        /\ r # q /\ Delivered(r)
        /\ frame.r = q /\ frame.op = "stream_recv" /\ Delivered(q)
        /\ FulfilledError(fut[q]) /\ fut[q].exception \notin NativeErrors
====
